---- MODULE Spec2Model ----
(***************************************************************************)
(* Model of the skill-digest pipeline driver (scripts/daily-skill-digest.sh *)
(* as listed in SKILL.md) and of the stores it drives: the catalog cache    *)
(* (data/skill_cache.json), the publication ledger                          *)
(* (data/published_skills.json), the "today's selection" state shared by    *)
(* select_daily.py / generate_article.py, and the article output directory. *)
(* The three Python scripts are not part of the sources at hand; their      *)
(* behaviour is taken from the design specification (sections 4.1 - 4.3).   *)
(* The trigger layer is cloudflare-worker/worker.js: its two handlers, and  *)
(* the driver runs that its accepted dispatches start.                      *)
(* Spec / FairSpec: one driver run after another.  WorkerSpec: the worker   *)
(* alone.  TriggerSpec: the worker and the runs it starts, side by side.    *)
(***************************************************************************)
EXTENDS Integers, Sequences, FiniteSets, TLC

\* ---------------------------------------------------------------- bounds
MaxRuns == 2
MaxDate == 2
MaxEvents == 3
MaxProcs == 2

\* ------------------------------------------------- the candidate items
\* Identities of the candidate items the aggregator may ever return.
Items == {"A", "B", "C", "D"}
NoItem == "none"

\* identity order used by the deterministic tie-break (lexicographic)
IdOrder(i) == CASE i = "A" -> 1 [] i = "B" -> 2 [] i = "C" -> 3 [] OTHER -> 4

\* the "name" field of the item's JSON; D carries no name key
HasName(i) == i # "D"
NameField(i) ==
    CASE i = "A" -> <<"a", " ", "b">>
      [] i = "B" -> <<"a", "/", "b">>
      [] i = "C" -> <<"c", "!">>
      [] OTHER   -> <<>>
Category(i) == CASE i = "A" -> "tools" [] i = "B" -> "tools" [] i = "C" -> "data" [] OTHER -> "data"
Official(i) == FALSE
\* lastUpdatedAt; 0 stands for "unknown"
Updated(i) == CASE i = "A" -> 2 [] i = "B" -> 2 [] i = "C" -> 1 [] OTHER -> 0

\* catalog snapshots a refresh may bring back (never empty, see Refresh)
Snapshots == { {"A", "B", "C"}, {"B", "C", "D"}, {"C"}, {"D"} }

Unknown == <<"U", "n", "k", "n", "o", "w", "n">>

VARIABLES
    today,        \* calendar date of the machine, 1..MaxDate
    cache,        \* data/skill_cache.json: [exists, skills]
    ledger,       \* data/published_skills.json: sequence of publication records
    selLog,       \* selection of the day kept by select_daily.py: [valid, date, item]
    files,        \* article files in OUTPUT_DIR: set of <<date, safe name>>
    pc,           \* position of the driver script
    run,          \* number of runs started so far
    runDate,      \* calendar date on which the current run started
    selected,     \* identity of the item in $SELECTED of the current run
    skillName,    \* $SKILL_NAME
    articleFile,  \* $ARTICLE_FILE
    exitStatus,   \* exit status of the run (-1 while it runs)
    exitAt,       \* step at which the run ended
    obs,          \* what happened in the current run (outcome of each step)
    ledger0,      \* the ledger as it was when the current run started
    prev,         \* summary of the previous run
    handed,       \* calls of the publish channel so far
    token,        \* env.GITHUB_TOKEN of the worker is configured
    sentBy,       \* dispatch requests sent so far, by kind of trigger
    wlast,        \* the last event the worker handled and what it did
    nevents,      \* number of events the worker handled
    pending,      \* accepted dispatches that have not started a run yet
    procs         \* the pipeline runs started by dispatches

vars == <<today, cache, ledger, selLog, files, pc, run, runDate, selected, skillName,
          articleFile, exitStatus, exitAt, obs, ledger0, prev, handed,
          token, sentBy, wlast, nevents, pending, procs>>

\* state of the trigger layer and of the runs it starts
wvars == <<token, sentBy, wlast, nevents, pending, procs>>
\* state of a single driver run
dvars == <<pc, run, runDate, selected, skillName, articleFile, exitStatus, exitAt,
           obs, ledger0, prev>>

Procs == 1..MaxProcs
IdleProc == [pc |-> "none", item |-> NoItem, gen |-> "none"]
NoResponse == [kind |-> "none", status |-> 0, text |-> ""]
NoResult == [sent |-> FALSE, threw |-> FALSE, success |-> FALSE, status |-> 0,
             error |-> "", message |-> ""]
NoEvent == [valid |-> FALSE, kind |-> "none", path |-> "", nreq |-> 0,
            answer |-> NoResponse, result |-> NoResult]

NoObs == [fetch |-> "none", count |-> -1, sel |-> "none", gen |-> "none",
          mark |-> "none", pub |-> "none", completed |-> FALSE]
NoPrev == [valid |-> FALSE, date |-> 0, item |-> NoItem, gen |-> "none",
           exitAt |-> "none", ledger0 |-> <<>>]
NoPath == <<0, <<>>>>

\* ------------------------------------------------------ pure functions

\* sed 's/ /-/g' | sed 's/\//-/g' | sed 's/[^a-zA-Z0-9_-]//g'
SafeChars == {"a", "b", "c", "U", "n", "k", "o", "w", "-", "_"}
ReplaceChar(c) == IF c = " " \/ c = "/" THEN "-" ELSE c
IsSafeChar(c) == c \in SafeChars
Sanitize(name) ==
    SelectSeq([k \in 1..Len(name) |-> ReplaceChar(name[k])], IsSafeChar)

\* "$OUTPUT_DIR/$(date '+%Y-%m-%d')-${SAFE_SKILL_NAME}.md"
ArticlePath(date, name) == <<date, Sanitize(name)>>

\* print(d.get('name','Unknown'))
SkillNameOf(i) == IF HasName(i) THEN NameField(i) ELSE Unknown

\* len(d.get('skills',[])), or "0" when the file cannot be read
SkillCount(c) == IF c.exists THEN Cardinality(c.skills) ELSE 0

\* ------------------------------------------------ ledger (design 4.3)
Identities(l) == {l[k].identity : k \in 1..Len(l)}
Contains(l, i) == i \in Identities(l)
Count(l, i) == Cardinality({k \in 1..Len(l) : l[k].identity = i})
MarkPublished(l, i, d) ==
    IF Contains(l, i) THEN l
    ELSE Append(l, [identity |-> i, category |-> Category(i), publishedAt |-> d])
MostRecentCategory(l) == IF Len(l) = 0 THEN "none" ELSE l[Len(l)].category

\* ---------------------------------------------- selector (design 4.2)
IsSkill(i) == Category(i) \notin {"docs", "tutorial", "blog"}
Eligible(catalog, l) == {i \in catalog : ~Contains(l, i) /\ IsSkill(i)}
Known(i) == Updated(i) > 0
Diverse(i, l) == Category(i) # MostRecentCategory(l)
\* i ranks strictly above j
Better(i, j, l) ==
    IF Official(i) # Official(j) THEN Official(i)
    ELSE IF Known(i) # Known(j) THEN Known(i)
    ELSE IF Updated(i) # Updated(j) THEN Updated(i) > Updated(j)
    ELSE IF Diverse(i, l) # Diverse(j, l) THEN Diverse(i, l)
    ELSE IdOrder(i) < IdOrder(j)
Rank(catalog, l) ==
    LET E == Eligible(catalog, l) IN
    IF E = {} THEN NoItem
    ELSE CHOOSE i \in E : \A j \in E \ {i} : Better(i, j, l)
\* re-entry rule: the selection already made for this date is returned
\* unchanged as long as it has not been marked published
SelectForDate(d, catalog, l, log) ==
    IF log.valid /\ log.date = d /\ ~Contains(l, log.item) THEN log.item
    ELSE Rank(catalog, l)

\* --------------------------------------------------------------- Init
\* the stores and the driver before the first run, no event handled yet
StartState ==
    /\ today = 1
    /\ cache \in {[exists |-> FALSE, skills |-> {}], [exists |-> TRUE, skills |-> {}],
                  [exists |-> TRUE, skills |-> {"A", "B", "C"}]}
    /\ ledger = <<>>
    /\ selLog = [valid |-> FALSE, date |-> 0, item |-> NoItem]
    /\ files = {}
    /\ pc = "idle"
    /\ run = 0
    /\ runDate = 0
    /\ selected = NoItem
    /\ skillName = <<>>
    /\ articleFile = NoPath
    /\ exitStatus = -1
    /\ exitAt = "none"
    /\ obs = NoObs
    /\ ledger0 = <<>>
    /\ prev = NoPrev
    /\ handed = {}
    /\ sentBy = {}
    /\ wlast = NoEvent
    /\ nevents = 0
    /\ pending = 0
    /\ procs = [p \in Procs |-> IdleProc]

\* the driver run by hand or by cron on one machine
Init == StartState /\ token = TRUE

\* variant of Exit: every exit of the script reports status 0
ExitZero(status, step) ==
    /\ pc' = "exited"
    /\ exitStatus' = 0
    /\ exitAt' = step
\* the script ends with the given status at the given step
Exit(status, step) ==
    /\ pc' = "exited"
    /\ exitStatus' = status
    /\ exitAt' = step

\* ------------------------------------------------------------ actions

\* the calendar moves on between two runs
NextDay ==
    /\ pc \in {"idle", "exited"}
    /\ today < MaxDate
    /\ today' = today + 1
    /\ UNCHANGED <<wvars, cache, ledger, selLog, files, pc, run, runDate, selected, skillName,
                   articleFile, exitStatus, exitAt, obs, ledger0, prev, handed>>

\* the driver is invoked (cron or manual): banner lines of the log
StartRun ==
    /\ pc \in {"idle", "exited"}
    /\ run < MaxRuns
    /\ run' = run + 1
    /\ runDate' = today
    /\ pc' = "fetch"
    /\ prev' = IF pc = "exited"
               THEN [valid |-> TRUE, date |-> runDate, item |-> selected,
                     gen |-> obs.gen, exitAt |-> exitAt, ledger0 |-> ledger0]
               ELSE NoPrev
    /\ selected' = NoItem
    /\ skillName' = <<>>
    /\ articleFile' = NoPath
    /\ exitStatus' = -1
    /\ exitAt' = "none"
    /\ obs' = NoObs
    /\ ledger0' = ledger
    /\ UNCHANGED <<wvars, today, cache, ledger, selLog, files, handed>>

\* refresh() of the catalog cache: wholesale replace on success, the old
\* cache is kept on failure
Refresh(c, ok, snap) == IF ok THEN [exists |-> TRUE, skills |-> snap] ELSE c

\* Step 1: fetch_skills.py --refresh || { log "Warning ..." }
Fetch ==
    /\ pc = "fetch"
    /\ \E ok \in BOOLEAN, snap \in Snapshots :
          /\ cache' = Refresh(cache, ok, snap)
          /\ obs' = [obs EXCEPT !.fetch = IF ok THEN "ok" ELSE "warning"]
    /\ pc' = "count"
    /\ UNCHANGED <<wvars, today, ledger, selLog, files, run, runDate, selected, skillName,
                   articleFile, exitStatus, exitAt, ledger0, prev, handed>>

\* variant of NoSkills: the emptiness test of the cache is dropped
NoSkillsUnchecked(c) == FALSE
\* SKILL_COUNT=...; if [ "$SKILL_COUNT" -eq "0" ]; then exit 1
NoSkills(c) == SkillCount(c) = 0
CheckSkills ==
    /\ pc = "count"
    /\ obs' = [obs EXCEPT !.count = SkillCount(cache)]
    /\ IF NoSkills(cache)
       THEN Exit(1, "fetch")
       ELSE /\ pc' = "select"
            /\ UNCHANGED <<exitStatus, exitAt>>
    /\ UNCHANGED <<wvars, today, cache, ledger, selLog, files, run, runDate, selected, skillName,
                   articleFile, ledger0, prev, handed>>

\* Step 2: select_daily.py 2>&1 | tee "$TEMP_JSON" | grep ... || true
\* the selector prints the chosen item as JSON; nothing when it crashes or
\* when no item is eligible
SelectionEmpty(sel) == sel = NoItem
Select ==
    /\ pc = "select"
    /\ \E crash \in BOOLEAN :
          LET pick == IF crash THEN NoItem
                      ELSE SelectForDate(today, cache.skills, ledger, selLog)
          IN  /\ selected' = pick
              /\ selLog' = IF pick = NoItem THEN selLog
                           ELSE [valid |-> TRUE, date |-> today, item |-> pick]
              /\ obs' = [obs EXCEPT !.sel = IF crash THEN "error"
                                            ELSE IF pick = NoItem THEN "noeligible"
                                            ELSE "item"]
              /\ IF SelectionEmpty(pick)
                 THEN Exit(1, "select")
                 ELSE /\ pc' = "parse"
                      /\ UNCHANGED <<exitStatus, exitAt>>
    /\ UNCHANGED <<wvars, today, cache, ledger, files, run, runDate, skillName, articleFile,
                   ledger0, prev, handed>>

\* SKILL_NAME=...; if [ "$SKILL_NAME" = "Unknown" ] || [ -z "$SKILL_NAME" ]
NameUnparsable(name) == name = Unknown \/ name = <<>>
ParseName ==
    /\ pc = "parse"
    /\ skillName' = SkillNameOf(selected)
    /\ IF NameUnparsable(skillName')
       THEN Exit(1, "parse")
       ELSE /\ pc' = "generate"
            /\ UNCHANGED <<exitStatus, exitAt>>
    /\ UNCHANGED <<wvars, today, cache, ledger, selLog, files, run, runDate, selected,
                   articleFile, obs, ledger0, prev, handed>>

\* generate_article.py --output FILE: writes the article on success only
WriteArticle(fs, path, ok) == IF ok THEN fs \cup {path} ELSE fs

\* variant of Generate: the selection is marked published before the
\* article file is looked for
GenerateMarkingFirst ==
    /\ pc = "generate"
    /\ articleFile' = ArticlePath(today, skillName)
    /\ \E ok \in BOOLEAN :
          /\ files' = WriteArticle(files, articleFile', ok)
          /\ obs' = [obs EXCEPT !.gen = IF ok THEN "ok" ELSE "fail"]
    /\ ledger' = MarkPublished(ledger, selLog.item, today)
    /\ IF articleFile' \notin files'
       THEN Exit(1, "generate")
       ELSE /\ pc' = "mark"
            /\ UNCHANGED <<exitStatus, exitAt>>
    /\ UNCHANGED <<wvars, today, cache, selLog, run, runDate, selected, skillName,
                   ledger0, prev, handed>>

\* Step 3: generate_article.py ... 2>&1 | tee -a "$LOG_FILE"
\*         if [ ! -f "$ARTICLE_FILE" ]; then exit 1
ArticleMissing(fs, path) == path \notin fs
Generate ==
    /\ pc = "generate"
    /\ articleFile' = ArticlePath(today, skillName)
    /\ \E ok \in BOOLEAN :
          /\ files' = WriteArticle(files, articleFile', ok)
          /\ obs' = [obs EXCEPT !.gen = IF ok THEN "ok" ELSE "fail"]
    /\ IF ArticleMissing(files', articleFile')
       THEN Exit(1, "generate")
       ELSE /\ pc' = "mark"
            /\ UNCHANGED <<exitStatus, exitAt>>
    /\ UNCHANGED <<wvars, today, cache, ledger, selLog, run, runDate, selected, skillName,
                   ledger0, prev, handed>>

\* variant of Errexit: the script runs without set -e
NoErrexit(ok) == FALSE
\* set -e: a failing simple command ends the script
Errexit(ok) == ~ok

\* Step 4: select_daily.py --mark-published > /dev/null 2>&1
Mark ==
    /\ pc = "mark"
    /\ \E ok \in BOOLEAN :
          /\ ledger' = IF ok THEN MarkPublished(ledger, selLog.item, today) ELSE ledger
          /\ obs' = [obs EXCEPT !.mark = IF ok THEN "ok" ELSE "fail"]
          /\ IF Errexit(ok)
             THEN Exit(1, "mark")
             ELSE /\ pc' = "publish"
                  /\ UNCHANGED <<exitStatus, exitAt>>
    /\ UNCHANGED <<wvars, today, cache, selLog, files, run, runDate, selected, skillName,
                   articleFile, ledger0, prev, handed>>

\* Step 5, the branches that do not call publish.py: wechat-publish not
\* installed, publish.py missing, SANGENG_API_KEY not set
SkipReasons == {"not_installed", "no_script", "no_api_key"}
PublishSkip ==
    /\ pc = "publish"
    /\ \E why \in SkipReasons : obs' = [obs EXCEPT !.pub = why]
    /\ pc' = "finish"
    /\ UNCHANGED <<wvars, today, cache, ledger, selLog, files, run, runDate, selected, skillName,
                   articleFile, exitStatus, exitAt, ledger0, prev, handed>>

\* Step 5: publish.py publish --title ... --content-file "$ARTICLE_FILE"
\*         2>&1 | tee -a "$LOG_FILE" || { log "Warning ..." }
PublishCall ==
    /\ pc = "publish"
    /\ \E ok \in BOOLEAN :
          /\ obs' = [obs EXCEPT !.pub = IF ok THEN "ok" ELSE "fail"]
          /\ handed' = handed \cup {[run |-> run, date |-> today, item |-> selected,
                                     gen |-> obs.gen, ok |-> ok]}
    /\ pc' = "finish"
    /\ UNCHANGED <<wvars, today, cache, ledger, selLog, files, run, runDate, selected, skillName,
                   articleFile, exitStatus, exitAt, ledger0, prev>>

\* log "Daily Skill Digest completed successfully"; exit 0
Finish ==
    /\ pc = "finish"
    /\ obs' = [obs EXCEPT !.completed = TRUE]
    /\ Exit(0, "done")
    /\ UNCHANGED <<wvars, today, cache, ledger, selLog, files, run, runDate, selected, skillName,
                   articleFile, ledger0, prev, handed>>

Next ==
    \/ NextDay
    \/ StartRun
    \/ Fetch
    \/ CheckSkills
    \/ Select
    \/ ParseName
    \/ Generate
    \/ Mark
    \/ PublishSkip
    \/ PublishCall
    \/ Finish

Spec == Init /\ [][Next]_vars

\* the steps of a started run; each external command returns, so a run that
\* can take its next step takes it
DriverStep ==
    \/ Fetch \/ CheckSkills \/ Select \/ ParseName \/ Generate
    \/ Mark \/ PublishSkip \/ PublishCall \/ Finish
FairSpec == Init /\ [][Next]_vars /\ WF_vars(DriverStep)

TypeOK ==
    /\ today \in 1..MaxDate
    /\ run \in 0..MaxRuns
    /\ selected \in Items \cup {NoItem}
    /\ exitStatus \in {-1, 0, 1}
    /\ Identities(ledger) \subseteq Items

\* ------------------------------------------------------------- claims

PublishCalled == obs.pub \in {"ok", "fail"}
RunEnded == pc = "exited"

\* C1: on one calendar date, the items for which an article was generated
\* and handed to the publisher are at most one identity, however often the
\* driver is invoked on that date.
C1_OneItemPerDate ==
    \A h1 \in handed : \A h2 \in handed :
        (h1.gen = "ok" /\ h2.gen = "ok" /\ h1.date = h2.date) => h1.item = h2.item

\* C2: when the publish step failed or was skipped, the selected item has
\* no record in the ledger at the end of the run.
C2_NoRecordWithoutPublish ==
    (RunEnded /\ obs.pub \in {"fail"} \cup SkipReasons) => ~Contains(ledger, selected)

\* C3: no item identity is handed to the publish channel in two runs, and
\* every item that reaches the publish step is already in the ledger.
C3_HandedOnceAndRecorded ==
    /\ \A h1 \in handed : \A h2 \in handed : h1.item = h2.item => h1.run = h2.run
    /\ \A h \in handed : Contains(ledger, h.item)
    /\ pc \in {"publish", "finish"} => Contains(ledger, selected)
C3_Witness ==
    /\ pc = "publish"
    /\ \E h \in handed : h.run < run /\ h.date = runDate /\ h.item # selected

\* C4: a selection that yields no eligible item ends the run with exit
\* status 0, with no article, no publish call and the ledger untouched.
C4_NoEligibleIsSuccess ==
    (RunEnded /\ obs.sel = "noeligible") =>
        /\ exitStatus = 0
        /\ obs.gen = "none"
        /\ ~PublishCalled
        /\ ledger = ledger0

\* C5: a failure of article generation ends the run in failure, the selected
\* item is neither marked published nor published, whatever the output
\* directory holds.
C5_GenerationFailureFatal ==
    (RunEnded /\ obs.gen = "fail") =>
        /\ exitStatus # 0
        /\ ledger = ledger0
        /\ ~PublishCalled

\* C6: after a run that failed at article generation, the next run on the
\* same date starts from the same ledger and selects the same item, also
\* when the refreshed catalog differs.
RetryAfterGenerationFailure ==
    prev.valid /\ prev.exitAt = "generate" /\ prev.date = runDate /\ ~RunEnded
C6_RetrySelectsSameItem ==
    RetryAfterGenerationFailure =>
        /\ ledger0 = prev.ledger0
        /\ obs.sel = "item" => selected = prev.item
        /\ obs.sel # "noeligible"
C6_Witness ==
    /\ RetryAfterGenerationFailure
    /\ obs.sel = "item"
    /\ selected = prev.item
    /\ obs.fetch = "ok"
    /\ prev.item \notin cache.skills

\* C7: after a run on date d that generated the article of item i and failed
\* to publish it, no later run on date d invokes generation for (d, i), and
\* once a later publish has succeeded the ledger holds exactly one record of i.
PublishFailures == {h \in handed : h.gen = "ok" /\ ~h.ok}
C8_FetchFallback ==
    /\ (obs.fetch = "warning" /\ obs.count > 0) =>
           /\ exitAt # "fetch"
           /\ obs.count = SkillCount(cache)
    /\ (pc \notin {"idle", "fetch", "count"} /\ SkillCount(cache) = 0) =>
           /\ RunEnded /\ exitStatus = 1 /\ exitAt = "fetch"
           /\ obs.sel = "none" /\ obs.gen = "none" /\ ~PublishCalled
           /\ ledger = ledger0
C8_Witness ==
    /\ obs.fetch = "warning"
    /\ obs.count > 0
    /\ pc = "select"

\* C9: a failed ledger write ends the run in failure: no exit 0, no
\* completion line in the log, no publish call.
C9_MarkFailureFatal ==
    obs.mark = "fail" =>
        /\ RunEnded
        /\ exitStatus # 0
        /\ ~obs.completed
        /\ obs.pub = "none"
C9_Witness == obs.mark = "fail" /\ RunEnded /\ exitAt = "mark"

\* C10: when a run exits with status 0, its selected item is in the ledger
\* if and only if its article was delivered to the publish channel.
Delivered(i) == \E h \in handed : h.item = i /\ h.ok
C10_LedgerMatchesPublished ==
    (RunEnded /\ exitStatus = 0) => (Contains(ledger, selected) <=> Delivered(selected))

\* C11: every invocation ends, and ends in exactly one of Done-with-item,
\* Done-no-eligible-item and Failed(stage).
Running == pc \notin {"idle", "exited"}
Stages == {"fetch", "select", "parse", "generate", "mark"}
DoneWithItem == exitStatus = 0 /\ exitAt = "done" /\ obs.sel = "item" /\ obs.completed
DoneNoEligibleItem == exitStatus = 0 /\ obs.sel = "noeligible" /\ obs.gen = "none"
FailedAtStage == exitStatus # 0 /\ exitAt \in Stages /\ ~obs.completed
ExactlyOneOutcome ==
    /\ DoneWithItem \/ DoneNoEligibleItem \/ FailedAtStage
    /\ ~(DoneWithItem /\ DoneNoEligibleItem)
    /\ ~(DoneWithItem /\ FailedAtStage)
    /\ ~(DoneNoEligibleItem /\ FailedAtStage)
C11_TerminatesInOneOutcome ==
    /\ [](RunEnded => ExactlyOneOutcome)
    /\ [](Running => <>RunEnded)
C11_Witness == RunEnded /\ DoneWithItem /\ run > 1 /\ prev.exitAt \in Stages

\* C13: only the mark-published step changes the ledger, and a run that
\* ends before that step leaves the ledger as it found it and has called
\* no publisher.
EndedBeforeMark == RunEnded /\ exitAt \in {"fetch", "select", "parse", "generate"}
C13_OnlyMarkWritesLedger ==
    /\ [][pc # "mark" => ledger' = ledger]_vars
    /\ [](EndedBeforeMark => (ledger = ledger0 /\ ~PublishCalled))
C13_Witness == EndedBeforeMark /\ exitAt = "generate" /\ ledger = ledger0 /\ Len(ledger) > 0

\* ------------------------------------------------------ trigger layer
\* (cloudflare-worker/worker.js) and the runs its dispatches start

\* what the GitHub API may answer to the dispatch request
Responses ==
    { [kind |-> "status", status |-> 204, text |-> ""],
      [kind |-> "status", status |-> 401, text |-> "Bad credentials"],
      [kind |-> "status", status |-> 404, text |-> "Not Found"],
      [kind |-> "bodyerr", status |-> 422, text |-> "body stream error"],
      [kind |-> "neterr", status |-> 0, text |-> "fetch failed"] }

\* the request of triggerWorkflow: POST .../repos/${REPO}/dispatches
DispatchRequest ==
    [method |-> "POST", repo |-> "lairulan/skill-digest",
     event_type |-> "daily-skill-digest"]

\* variant of TriggerWorkflow: the request is sent without looking at the token
TriggerWorkflowNoTokenCheck(tok, resp) ==
    IF resp.kind = "neterr" \/ resp.kind = "bodyerr"
    THEN [NoResult EXCEPT !.sent = TRUE, !.error = resp.text]
    ELSE IF resp.status = 204
    THEN [NoResult EXCEPT !.sent = TRUE, !.success = TRUE,
                          !.message = "Workflow triggered successfully"]
    ELSE [NoResult EXCEPT !.sent = TRUE, !.status = resp.status, !.error = resp.text]

\* async function triggerWorkflow(env): the value it returns, given the
\* answer to its request
TriggerWorkflow(tok, resp) ==
    IF ~tok
    THEN [NoResult EXCEPT !.error = "GITHUB_TOKEN not configured"]
    ELSE IF resp.kind = "neterr"
    THEN \* fetch rejects: catch (error) { success: false, error: error.message }
         [NoResult EXCEPT !.sent = TRUE, !.error = resp.text]
    ELSE IF resp.status = 204
    THEN [NoResult EXCEPT !.sent = TRUE, !.success = TRUE,
                          !.message = "Workflow triggered successfully"]
    ELSE IF resp.kind = "bodyerr"
    THEN \* await response.text() rejects inside the try block
         [NoResult EXCEPT !.sent = TRUE, !.error = resp.text]
    ELSE [NoResult EXCEPT !.sent = TRUE, !.status = resp.status, !.error = resp.text]

\* the worker handled an event of the given kind that called triggerWorkflow
Triggered(kind, path, resp) ==
    LET r == TriggerWorkflow(token, resp) IN
    /\ wlast' = [valid |-> TRUE, kind |-> kind, path |-> path,
                 nreq |-> IF r.sent THEN 1 ELSE 0,
                 answer |-> IF r.sent THEN resp ELSE NoResponse,
                 result |-> r]
    /\ sentBy' = IF r.sent THEN sentBy \cup {[kind |-> kind, req |-> DispatchRequest]}
                 ELSE sentBy
    /\ pending' = IF r.success THEN pending + 1 ELSE pending

\* async scheduled(event, env, ctx)
Scheduled ==
    /\ nevents < MaxEvents
    /\ nevents' = nevents + 1
    /\ \E resp \in Responses : Triggered("scheduled", "", resp)
    /\ UNCHANGED <<dvars, today, cache, ledger, selLog, files, handed, token, procs>>

Paths == {"/", "/trigger", "/trigger/x"}
\* variant of IsTriggerPath: any path that starts with /trigger
IsTriggerPrefix(path) == path \in {"/trigger", "/trigger/x"}
\* url.pathname === '/trigger'
IsTriggerPath(path) == path = "/trigger"

\* async fetch(request, env, ctx)
HttpFetch ==
    /\ nevents < MaxEvents
    /\ nevents' = nevents + 1
    /\ \E path \in Paths :
          IF IsTriggerPath(path)
          THEN \E resp \in Responses : Triggered("http", path, resp)
          ELSE /\ wlast' = [NoEvent EXCEPT !.valid = TRUE, !.kind = "http", !.path = path]
               /\ UNCHANGED <<sentBy, pending>>
    /\ UNCHANGED <<dvars, today, cache, ledger, selLog, files, handed, token, procs>>

\* a run of the driver as one of several that dispatches have started; its
\* steps are those of the script, Steps 1 and 2 taken together
SetProc(p, newpc, item, gen) ==
    procs' = [procs EXCEPT ![p] = [pc |-> newpc, item |-> item, gen |-> gen]]

\* an accepted repository_dispatch starts the workflow, which runs the driver;
\* runs are numbered in the order in which they start
RunStart ==
    /\ pending > 0
    /\ \E p \in Procs :
          /\ procs[p].pc = "none"
          /\ \A q \in 1..(p - 1) : procs[q].pc # "none"
          /\ SetProc(p, "select", NoItem, "none")
    /\ pending' = pending - 1
    /\ UNCHANGED <<dvars, today, cache, ledger, selLog, files, handed,
                   token, sentBy, wlast, nevents>>

\* Steps 1 and 2 of the script: refresh, SKILL_COUNT check, selection,
\* SKILL_NAME check
RunSelect ==
    \E p \in Procs :
      /\ procs[p].pc = "select"
      /\ \E ok \in BOOLEAN, snap \in Snapshots, crash \in BOOLEAN :
            LET c == Refresh(cache, ok, snap)
                pick == IF NoSkills(c) \/ crash THEN NoItem
                        ELSE SelectForDate(today, c.skills, ledger, selLog)
            IN  /\ cache' = c
                /\ selLog' = IF pick = NoItem THEN selLog
                             ELSE [valid |-> TRUE, date |-> today, item |-> pick]
                /\ IF SelectionEmpty(pick) \/ NameUnparsable(SkillNameOf(pick))
                   THEN SetProc(p, "failed", pick, "none")
                   ELSE SetProc(p, "generate", pick, "none")
      /\ UNCHANGED <<dvars, today, ledger, files, handed,
                     token, sentBy, wlast, nevents, pending>>

\* Step 3 of the script
RunGenerate ==
    \E p \in Procs :
      /\ procs[p].pc = "generate"
      /\ \E ok \in BOOLEAN :
            LET path == ArticlePath(today, SkillNameOf(procs[p].item))
                fs == WriteArticle(files, path, ok)
            IN  /\ files' = fs
                /\ IF ArticleMissing(fs, path)
                   THEN SetProc(p, "failed", procs[p].item, "fail")
                   ELSE SetProc(p, "mark", procs[p].item, IF ok THEN "ok" ELSE "fail")
      /\ UNCHANGED <<dvars, today, cache, ledger, selLog, handed,
                     token, sentBy, wlast, nevents, pending>>

\* Step 4 of the script
RunMark ==
    \E p \in Procs :
      /\ procs[p].pc = "mark"
      /\ \E ok \in BOOLEAN :
            /\ ledger' = IF ok THEN MarkPublished(ledger, selLog.item, today) ELSE ledger
            /\ IF Errexit(ok)
               THEN SetProc(p, "failed", procs[p].item, procs[p].gen)
               ELSE SetProc(p, "publish", procs[p].item, procs[p].gen)
      /\ UNCHANGED <<dvars, today, cache, selLog, files, handed,
                     token, sentBy, wlast, nevents, pending>>

\* Step 5 of the script and its last lines
RunPublish ==
    \E p \in Procs :
      /\ procs[p].pc = "publish"
      /\ \E out \in {"skipped", "ok", "fail"} :
            handed' = IF out = "skipped" THEN handed
                      ELSE handed \cup {[run |-> p, date |-> today,
                                         item |-> procs[p].item,
                                         gen |-> procs[p].gen, ok |-> out = "ok"]}
      /\ SetProc(p, "done", procs[p].item, procs[p].gen)
      /\ UNCHANGED <<dvars, today, cache, ledger, selLog, files,
                     token, sentBy, wlast, nevents, pending>>

TriggerInit == StartState /\ token \in BOOLEAN
TriggerNext ==
    \/ Scheduled
    \/ HttpFetch
    \/ RunStart
    \/ RunSelect
    \/ RunGenerate
    \/ RunMark
    \/ RunPublish
TriggerSpec == TriggerInit /\ [][TriggerNext]_vars

\* the worker alone: scheduled events and HTTP requests in any order
WorkerNext ==
    \/ Scheduled
    \/ HttpFetch
WorkerSpec == TriggerInit /\ [][WorkerNext]_vars

\* C12: with GITHUB_TOKEN configured, a scheduled event and a request to
\* /trigger each issue exactly one dispatch request, the same one, with
\* event_type 'daily-skill-digest'; a request to another path issues none.
CallsTrigger(e) == e.kind = "scheduled" \/ (e.kind = "http" /\ e.path = "/trigger")
C12_SameEntryPoint ==
    /\ (wlast.valid /\ CallsTrigger(wlast) /\ token) => wlast.nreq = 1
    /\ (wlast.valid /\ ~CallsTrigger(wlast)) => (wlast.nreq = 0 /\ ~wlast.result.sent)
    /\ \A a \in sentBy : a.req.event_type = "daily-skill-digest"
    /\ \A a \in sentBy : \A b \in sentBy : a.req = b.req
C12_Witness ==
    /\ {a.kind : a \in sentBy} = {"scheduled", "http"}
    /\ wlast.kind = "http" /\ wlast.path = "/trigger/x" /\ wlast.nreq = 0

\* C14: no pipeline run is under way next to a run that is between its
\* selection and its mark-published step, and no item is published by two
\* runs.
InWindow(p) == procs[p].pc \in {"generate", "mark"}
Started(p) == procs[p].pc \in {"select", "generate", "mark", "publish"}
C14_NoOverlappingRuns ==
    /\ \A p \in Procs : \A q \in Procs : (p # q /\ InWindow(p)) => ~Started(q)
    /\ \A h1 \in handed : \A h2 \in handed : h1.item = h2.item => h1.run = h2.run

\* C15: triggerWorkflow returns a value in every case: success exactly when
\* the request was sent and answered 204; without a token no request and
\* the error 'GITHUB_TOKEN not configured'; otherwise success=false with the
\* status and text of the answer, or the message of the exception.
C15_TriggerWorkflowResult ==
    (wlast.valid /\ CallsTrigger(wlast)) =>
        LET r == wlast.result
            a == wlast.answer
        IN  /\ ~r.threw
            /\ r.success <=> (r.sent /\ a.kind = "status" /\ a.status = 204)
            /\ ~token => (~r.sent /\ ~r.success /\ r.error = "GITHUB_TOKEN not configured")
            /\ token => r.sent
            /\ (r.sent /\ a.kind = "status" /\ a.status # 204) =>
                   (~r.success /\ r.status = a.status /\ r.error = a.text)
            /\ (r.sent /\ a.kind \in {"neterr", "bodyerr"}) =>
                   (~r.success /\ r.error = a.text)
C15_Witness ==
    /\ wlast.valid /\ CallsTrigger(wlast) /\ token
    /\ wlast.answer.status = 401
    /\ ~wlast.result.success /\ wlast.result.error = "Bad credentials"

====
